---------------------------- MODULE Spec2Model ----------------------------
(* State-machine model of the OpenPGP entity model of hockeypuck            *)
(* (src/settings/settings.go, package openpgp): Pubkey, Subkey, Signature,  *)
(* UserId, UserAttribute, their packet setters, fingerprint views, Visit,   *)
(* self-signature resolution, image extraction and signature appending.     *)
EXTENDS Integers, Sequences, FiniteSets, TLC

VARIABLES
    pubkey, subkey, keyOp,      \* a Pubkey, a Subkey and the last call made on them
    sig, sigOp,                 \* a Signature and the last SetSignature call
    tree, vpc, trace, vfail, vresult,   \* a Pubkey tree and a Visit in progress
    uat, jpc, jresult, seterr,  \* a UserAttribute, a GetJpegData in progress, the last setter's error
    lists, selfOp,              \* signature lists and the last call made on them
    stored, incoming, mergeOp   \* a stored Pubkey tree, an incoming one, the last call

keyVars == <<pubkey, subkey, keyOp>>
sigVars == <<sig, sigOp>>
visitVars == <<tree, vpc, trace, vfail, vresult>>
jpegVars == <<uat, jpc, jresult, seterr>>
selfVars == <<lists, selfOp>>
mergeVars == <<stored, incoming, mergeOp>>

vars == <<keyVars, sigVars, visitVars, jpegVars, selfVars, mergeVars>>

\* Each specification exercises one group of variables; the others are parked
KeyParked == pubkey = 0 /\ subkey = 0 /\ keyOp = 0
SigParked == sig = 0 /\ sigOp = 0
VisitParked == tree = 0 /\ vpc = 0 /\ trace = 0 /\ vfail = 0 /\ vresult = 0
JpegParked == uat = 0 /\ jpc = 0 /\ jresult = 0 /\ seterr = 0
SelfParked == lists = 0 /\ selfOp = 0
MergeParked == stored = 0 /\ incoming = 0 /\ mergeOp = 0

(***************************************************************************)
(* Bounds                                                                  *)
(***************************************************************************)
FpBytes == 20
MaxKeyTime == 1
MaxTime == 2
MaxLifetime == 1
MaxOwned == 8
MaxSubpackets == 2
MaxTail == 2
MaxListLen == 3
MaxIncomingSize == 2
MaxStoredSize == 3

(***************************************************************************)
(* Strings are sequences of one-character strings; byte strings are        *)
(* sequences of 0..255.                                                    *)
(***************************************************************************)
HexChars == <<"0","1","2","3","4","5","6","7","8","9","a","b","c","d","e","f">>

\* encoding/hex EncodeToString: two lowercase digits per byte, high nibble first
HexEncode(bytes) ==
    [i \in 1..(2 * Len(bytes)) |->
        IF i % 2 = 1 THEN HexChars[(bytes[(i + 1) \div 2] \div 16) + 1]
                     ELSE HexChars[(bytes[i \div 2] % 16) + 1]]

\* Reverse(s): character-order flip
Reverse(s) == [i \in 1..Len(s) |-> s[Len(s) + 1 - i]]

\* Go slice expression s[:n]; out of range is a run-time panic
SliceTo(s, n) == SubSeq(s, 1, n)

(***************************************************************************)
(* packet.PublicKey values.  fault is the outcome of the library calls      *)
(* pk.Serialize and pk.BitLength.                                          *)
(***************************************************************************)
PublicKeys ==
    [kind : {"PublicKey"}, IsSubkey : BOOLEAN, CreationTime : 1..MaxKeyTime, PubKeyAlgo : {1, 17},
     seed : {0, 1}, fault : {"none", "serialize", "bitlen"}]

\* pk.Fingerprint: the digest bytes of the key material
FingerprintBytes(pk) ==
    [i \in 1..FpBytes |->
        (pk.seed * 101 + pk.CreationTime * 53 + pk.PubKeyAlgo * 7 + i * 29
         + (IF pk.IsSubkey THEN 128 ELSE 0)) % 256]

\* Fingerprint(pk): hex string of the fingerprint
Fingerprint(pk) == HexEncode(FingerprintBytes(pk))

\* pk.Serialize(buf): packet tag, version, creation time, algorithm, material
SerializePublicKey(pk) ==
    <<(IF pk.IsSubkey THEN 14 ELSE 6), 4, pk.CreationTime, pk.PubKeyAlgo, pk.seed>>

\* pk.BitLength()
BitLength(pk) == 1024 * (pk.seed + 1)

KeyZero == [Packet |-> <<>>, RFingerprint |-> <<>>, Creation |-> 0,
            Algorithm |-> 0, BitLen |-> 0]

\* The five assignments at the end of SetPublicKey
StoreKey(ent, pk) ==
    [ent EXCEPT !.Packet = SerializePublicKey(pk),
                !.RFingerprint = Reverse(Fingerprint(pk)),
                !.Creation = pk.CreationTime,
                !.Algorithm = pk.PubKeyAlgo,
                !.BitLen = BitLength(pk)]

\* A SetPublicKey that stores the packet bytes before the type check
PubkeySetPublicKeyEarlyWrite(ent, pk) ==
    IF pk.fault = "serialize" THEN [ent |-> ent, err |-> "serialize"]
    ELSE IF pk.fault = "bitlen"
         THEN [ent |-> [ent EXCEPT !.Packet = SerializePublicKey(pk)], err |-> "bitlen"]
    ELSE IF pk.IsSubkey
         THEN [ent |-> [ent EXCEPT !.Packet = SerializePublicKey(pk)],
               err |-> "InvalidPacketErr"]
    ELSE [ent |-> StoreKey(ent, pk), err |-> ""]

\* (pubkey *Pubkey) SetPublicKey
PubkeySetPublicKey(ent, pk) ==
    IF pk.fault = "serialize" THEN [ent |-> ent, err |-> "serialize"]
    ELSE IF pk.fault = "bitlen" THEN [ent |-> ent, err |-> "bitlen"]
    ELSE IF pk.IsSubkey THEN [ent |-> ent, err |-> "InvalidPacketErr"]
    ELSE [ent |-> StoreKey(ent, pk), err |-> ""]

\* (subkey *Subkey) SetPublicKey
SubkeySetPublicKey(ent, pk) ==
    IF pk.fault = "serialize" THEN [ent |-> ent, err |-> "serialize"]
    ELSE IF pk.fault = "bitlen" THEN [ent |-> ent, err |-> "bitlen"]
    ELSE IF ~pk.IsSubkey THEN [ent |-> ent, err |-> "InvalidPacketErr"]
    ELSE [ent |-> StoreKey(ent, pk), err |-> ""]

\* A packet of another type handed to SetPacket
NotAPublicKey ==
    [kind |-> "UserId", IsSubkey |-> FALSE, CreationTime |-> 1, PubKeyAlgo |-> 1,
     seed |-> 0, fault |-> "none"]

KeyPackets == PublicKeys \cup {NotAPublicKey}

\* (pubkey *Pubkey) SetPacket
PubkeySetPacket(ent, p) ==
    IF p.kind # "PublicKey" THEN [ent |-> ent, err |-> "ErrInvalidPacketType"]
    ELSE PubkeySetPublicKey(ent, p)

\* (subkey *Subkey) SetPacket
SubkeySetPacket(ent, p) ==
    IF p.kind # "PublicKey" THEN [ent |-> ent, err |-> "ErrInvalidPacketType"]
    ELSE SubkeySetPublicKey(ent, p)

\* A KeyId that truncates the wrong end of the reversed fingerprint
KeyIdWrongEnd(rfp) ==
    IF Len(rfp) < 16 THEN <<"p","a","n","i","c">>
    ELSE Reverse(SubSeq(rfp, Len(rfp) - 15, Len(rfp)))

\* Fingerprint(): Reverse(RFingerprint)
FingerprintView(rfp) == Reverse(rfp)

\* KeyId(): Reverse(RFingerprint[:16])
KeyId(rfp) ==
    IF Len(rfp) < 16 THEN <<"p","a","n","i","c">>
    ELSE Reverse(SliceTo(rfp, 16))

\* ShortId(): Reverse(RFingerprint[:8])
ShortId(rfp) ==
    IF Len(rfp) < 8 THEN <<"p","a","n","i","c">>
    ELSE Reverse(SliceTo(rfp, 8))

NoPk == [kind |-> "PublicKey", IsSubkey |-> FALSE, CreationTime |-> 1, PubKeyAlgo |-> 1, seed |-> 0,
         fault |-> "none"]

KeyNew ==
    /\ pubkey = KeyZero
    /\ subkey = KeyZero
    /\ keyOp = [op |-> "new", target |-> "", pk |-> NoPk, err |-> "",
                result |-> <<>>, before |-> KeyZero]

PubkeySetPublicKeyCall ==
    \E pk \in PublicKeys :
        LET r == PubkeySetPublicKey(pubkey, pk) IN
        /\ pubkey' = r.ent
        /\ keyOp' = [op |-> "SetPublicKey", target |-> "Pubkey", pk |-> pk,
                     err |-> r.err, result |-> <<>>, before |-> pubkey]
        /\ UNCHANGED subkey
        /\ UNCHANGED <<sigVars, visitVars, jpegVars, selfVars, mergeVars>>

SubkeySetPublicKeyCall ==
    \E pk \in PublicKeys :
        LET r == SubkeySetPublicKey(subkey, pk) IN
        /\ subkey' = r.ent
        /\ keyOp' = [op |-> "SetPublicKey", target |-> "Subkey", pk |-> pk,
                     err |-> r.err, result |-> <<>>, before |-> subkey]
        /\ UNCHANGED pubkey
        /\ UNCHANGED <<sigVars, visitVars, jpegVars, selfVars, mergeVars>>

PubkeySetPacketCall ==
    \E p \in KeyPackets :
        LET r == PubkeySetPacket(pubkey, p) IN
        /\ pubkey' = r.ent
        /\ keyOp' = [op |-> "SetPacket", target |-> "Pubkey", pk |-> p,
                     err |-> r.err, result |-> <<>>, before |-> pubkey]
        /\ UNCHANGED subkey
        /\ UNCHANGED <<sigVars, visitVars, jpegVars, selfVars, mergeVars>>

SubkeySetPacketCall ==
    \E p \in KeyPackets :
        LET r == SubkeySetPacket(subkey, p) IN
        /\ subkey' = r.ent
        /\ keyOp' = [op |-> "SetPacket", target |-> "Subkey", pk |-> p,
                     err |-> r.err, result |-> <<>>, before |-> subkey]
        /\ UNCHANGED pubkey
        /\ UNCHANGED <<sigVars, visitVars, jpegVars, selfVars, mergeVars>>

ViewCall(target, ent, op, value) ==
    /\ keyOp' = [op |-> op, target |-> target, pk |-> NoPk, err |-> "",
                 result |-> value, before |-> ent]
    /\ UNCHANGED <<pubkey, subkey>>
    /\ UNCHANGED <<sigVars, visitVars, jpegVars, selfVars, mergeVars>>

PubkeyFingerprintCall ==
    \E v \in {FingerprintView(pubkey.RFingerprint)} :
        ViewCall("Pubkey", pubkey, "Fingerprint", v)
PubkeyKeyIdCall ==
    \E v \in {KeyId(pubkey.RFingerprint)} :
        ViewCall("Pubkey", pubkey, "KeyId", v)
PubkeyShortIdCall ==
    \E v \in {ShortId(pubkey.RFingerprint)} :
        ViewCall("Pubkey", pubkey, "ShortId", v)
SubkeyFingerprintCall ==
    \E v \in {FingerprintView(subkey.RFingerprint)} :
        ViewCall("Subkey", subkey, "Fingerprint", v)
SubkeyKeyIdCall ==
    \E v \in {KeyId(subkey.RFingerprint)} :
        ViewCall("Subkey", subkey, "KeyId", v)
SubkeyShortIdCall ==
    \E v \in {ShortId(subkey.RFingerprint)} :
        ViewCall("Subkey", subkey, "ShortId", v)

KeyNext ==
    \/ PubkeySetPacketCall
    \/ SubkeySetPacketCall
    \/ PubkeySetPublicKeyCall
    \/ SubkeySetPublicKeyCall
    \/ PubkeyFingerprintCall
    \/ PubkeyKeyIdCall
    \/ PubkeyShortIdCall
    \/ SubkeyFingerprintCall
    \/ SubkeyKeyIdCall
    \/ SubkeyShortIdCall

KeyInit == KeyNew /\ SigParked /\ VisitParked /\ JpegParked /\ SelfParked /\ MergeParked

SpecKey == KeyInit /\ [][KeyNext]_vars

KeyTarget == IF keyOp.target = "Pubkey" THEN pubkey ELSE subkey

\* C1: a SetPublicKey call, made directly or through SetPacket, whose
\* public-key packet has the wrong IsSubkey flag for its target (a subkey
\* packet on a Pubkey, a primary-key packet on a Subkey) returns an error and
\* leaves Packet, RFingerprint, Creation, Algorithm and BitLen of the target
\* as they were before the call.
C1_TypeGuardNoPartialWrite ==
    (/\ keyOp.op \in {"SetPublicKey", "SetPacket"}
     /\ keyOp.pk.kind = "PublicKey"
     /\ keyOp.pk.IsSubkey = (keyOp.target = "Pubkey"))
    => /\ keyOp.err # ""
       /\ KeyTarget.Packet = keyOp.before.Packet
       /\ KeyTarget.RFingerprint = keyOp.before.RFingerprint
       /\ KeyTarget.Creation = keyOp.before.Creation
       /\ KeyTarget.Algorithm = keyOp.before.Algorithm
       /\ KeyTarget.BitLen = keyOp.before.BitLen

\* A subkey packet was refused by a Pubkey that already held a key, after an
\* earlier successful call
C1_Witness ==
    /\ keyOp.op = "SetPublicKey"
    /\ keyOp.target = "Pubkey"
    /\ keyOp.pk.IsSubkey
    /\ keyOp.pk.fault = "none"
    /\ keyOp.err = "InvalidPacketErr"
    /\ pubkey.Packet # <<>>
    /\ subkey.Packet # <<>>

Suffix(s, n) == SubSeq(s, Len(s) - n + 1, Len(s))

AllFingerprints == {Fingerprint(pk) : pk \in PublicKeys}

\* C8: for a key whose RFingerprint is the reversal of a hex fingerprint F of
\* at least 16 characters, KeyId() is the last 16 characters of F, ShortId()
\* the last 8, Fingerprint() is F, and the call leaves the entity unchanged.
C8_KeyIdViews ==
    keyOp.op \in {"Fingerprint", "KeyId", "ShortId"}
    => \A F \in AllFingerprints :
        (Len(F) >= 16 /\ keyOp.before.RFingerprint = Reverse(F))
        => /\ keyOp.op = "Fingerprint" => keyOp.result = F
           /\ keyOp.op = "KeyId" => keyOp.result = Suffix(F, 16)
           /\ keyOp.op = "ShortId" => keyOp.result = Suffix(F, 8)
           /\ KeyTarget = keyOp.before

\* KeyId was read from a Subkey holding a real fingerprint longer than 16
C8_Witness ==
    /\ keyOp.op = "KeyId"
    /\ keyOp.target = "Subkey"
    /\ Len(subkey.RFingerprint) > 16
    /\ Len(keyOp.result) = 16

(***************************************************************************)
(* Signature.SetSignature                                                  *)
(***************************************************************************)
\* A uint64 issuer key id, as four 16-bit words, most significant first
IssuerKeyIds == {<<0, 0, 0, 1>>, <<57005, 48879, 4660, 65535>>}

AbsentKeyId == [present |-> FALSE, words |-> <<0, 0, 0, 0>>]

SignaturePackets ==
    [kind : {"Signature"}, SigType : {16, 19}, CreationTime : 1..MaxTime,
     IssuerKeyId : {AbsentKeyId} \cup {[present |-> TRUE, words |-> w] : w \in IssuerKeyIds},
     SigLifetimeSecs : {[present |-> FALSE, secs |-> 0]}
                       \cup {[present |-> TRUE, secs |-> n] : n \in 1..MaxLifetime},
     fault : {"none", "serialize"}]

\* A packet of another type handed to SetSignature
OtherPacket ==
    [kind |-> "UserId", SigType |-> 0, CreationTime |-> 1, IssuerKeyId |-> AbsentKeyId,
     SigLifetimeSecs |-> [present |-> FALSE, secs |-> 0], fault |-> "none"]

Packets == SignaturePackets \cup {OtherPacket}

\* binary.BigEndian.PutUint64: the eight bytes, most significant first
PutUint64(words) ==
    [i \in 1..8 |-> IF i % 2 = 1 THEN words[(i + 1) \div 2] \div 256
                                 ELSE words[i \div 2] % 256]

\* s.Serialize(buf): tag, version, type, creation time and the subpackets
SerializeSignature(s) ==
    <<2, 4, s.SigType, s.CreationTime>>
    \o (IF s.IssuerKeyId.present THEN <<16>> \o PutUint64(s.IssuerKeyId.words) ELSE <<>>)
    \o (IF s.SigLifetimeSecs.present THEN <<3, s.SigLifetimeSecs.secs>> ELSE <<>>)

SigZero == [Creation |-> 0, Packet |-> <<>>, SigType |-> 0, RIssuerKeyId |-> <<>>,
            Expiration |-> 0]

\* The assignments of setPacketV4 once the packet is accepted
StoreSignature(ent, s) ==
    [ent EXCEPT !.Creation = s.CreationTime,
                !.Packet = SerializeSignature(s),
                !.SigType = s.SigType,
                !.RIssuerKeyId = Reverse(HexEncode(PutUint64(s.IssuerKeyId.words))),
                !.Expiration = IF s.SigLifetimeSecs.present
                               THEN s.CreationTime + s.SigLifetimeSecs.secs
                               ELSE @]

\* A setPacketV4 that checks the issuer key id only after storing the packet
setPacketV4LateCheck(ent, s) ==
    IF s.fault = "serialize" THEN [ent |-> ent, err |-> "serialize"]
    ELSE IF ~s.IssuerKeyId.present
         THEN [ent |-> [ent EXCEPT !.Creation = s.CreationTime,
                                   !.Packet = SerializeSignature(s),
                                   !.SigType = s.SigType],
               err |-> "Signature missing issuer key ID"]
    ELSE [ent |-> StoreSignature(ent, s), err |-> ""]

\* (sig *Signature) setPacketV4
setPacketV4(ent, s) ==
    IF s.fault = "serialize" THEN [ent |-> ent, err |-> "serialize"]
    ELSE IF ~s.IssuerKeyId.present
         THEN [ent |-> ent, err |-> "Signature missing issuer key ID"]
    ELSE [ent |-> StoreSignature(ent, s), err |-> ""]

\* (sig *Signature) SetSignature
SetSignature(ent, p) ==
    IF p.kind = "Signature" THEN setPacketV4(ent, p)
    ELSE [ent |-> ent, err |-> "InvalidPacketType"]

SigNew ==
    /\ sig = SigZero
    /\ sigOp = [op |-> "new", p |-> OtherPacket, err |-> "", before |-> SigZero]

SetSignatureCall ==
    \E p \in Packets :
        LET r == SetSignature(sig, p) IN
        /\ sig' = r.ent
        /\ sigOp' = [op |-> "SetSignature", p |-> p, err |-> r.err, before |-> sig]
        /\ UNCHANGED <<keyVars, visitVars, jpegVars, selfVars, mergeVars>>

SigNext == SetSignatureCall

SigInit == SigNew /\ KeyParked /\ VisitParked /\ JpegParked /\ SelfParked /\ MergeParked

SpecSig == SigInit /\ [][SigNext]_vars

\* C2: SetSignature on a signature packet without an issuer key id returns an
\* error and changes none of Creation, Packet, SigType, RIssuerKeyId and
\* Expiration; hence a Signature holding a packet holds an issuer key id.
C2_IssuerAlwaysPresent ==
    /\ (sigOp.op = "SetSignature" /\ sigOp.p.kind = "Signature"
        /\ ~sigOp.p.IssuerKeyId.present)
       => (sigOp.err # "" /\ sig = sigOp.before)
    /\ sig.Packet # <<>> => sig.RIssuerKeyId # <<>>

\* A packet without issuer was refused by a Signature that already held one
C2_Witness ==
    /\ sigOp.op = "SetSignature"
    /\ sigOp.p.kind = "Signature"
    /\ sigOp.p.fault = "none"
    /\ ~sigOp.p.IssuerKeyId.present
    /\ sigOp.err = "Signature missing issuer key ID"
    /\ sig.Packet # <<>>
    /\ Len(sig.RIssuerKeyId) = 16

(***************************************************************************)
(* Visit: Pubkey.Visit and the Visit of each child entity, one visitor     *)
(* call per step                                                           *)
(***************************************************************************)
Ent(kind, i, j) == [kind |-> kind, i |-> i, j |-> j]

SigEnts(kind, i, n) == [j \in 1..n |-> Ent(kind, i, j)]

\* A UserId, UserAttribute or Subkey with n signatures; SelfSignature is a
\* reference into Signatures, not an owned entity
Kid(kind, i, n) ==
    [self |-> Ent(kind, i, 0),
     Signatures |-> SigEnts(kind \o ".sig", i, n),
     SelfSignature |-> IF n > 0 THEN Ent(kind \o ".sig", i, 1) ELSE Ent("nil", 0, 0)]

Kids(kind, shape) == [i \in 1..Len(shape) |-> Kid(kind, i, shape[i])]

RECURSIVE KidShapes(_)
\* The signature counts of a list of children that, with their signatures,
\* are at most room entities
KidShapes(room) ==
    {<<>>} \cup UNION {{<<n>> \o rest : rest \in KidShapes(room - 1 - n)} :
                          n \in 0..(room - 1)}

RECURSIVE ShapeSize(_)
\* The children of a list and their signatures, counted
ShapeSize(shape) ==
    IF shape = <<>> THEN 0 ELSE 1 + Head(shape) + ShapeSize(Tail(shape))

\* A Pubkey and what it owns; Revsig is a reference into Signatures
PubkeyTree(n, uids, uats, subkeys) ==
    [self |-> Ent("pubkey", 0, 0),
     Signatures |-> SigEnts("pubkey.sig", 0, n),
     UserIds |-> Kids("uid", uids),
     UserAttributes |-> Kids("uat", uats),
     Subkeys |-> Kids("subkey", subkeys),
     Revsig |-> IF n > 0 THEN Ent("pubkey.sig", 0, n) ELSE Ent("nil", 0, 0)]

\* Every Pubkey that owns at most MaxOwned entities, in lists of any length
Trees ==
    UNION {UNION {UNION {
        {PubkeyTree(n, a, b, c) :
            c \in KidShapes(MaxOwned - n - ShapeSize(a) - ShapeSize(b))} :
        b \in KidShapes(MaxOwned - n - ShapeSize(a))} :
        a \in KidShapes(MaxOwned - n)} :
        n \in 0..MaxOwned}

\* The values a visitor returns: nil ("") or an error
VisitorErrors == {"E1", "E2"}
VisitorOutcomes == {""} \cup VisitorErrors

Pc(loop, i, inner, j) == [loop |-> loop, i |-> i, inner |-> inner, j |-> j]
Return(e) == [pc |-> Pc("done", 0, "", 0), done |-> TRUE, err |-> e]
Continue(pc) == [pc |-> pc, done |-> FALSE, err |-> ""]

\* Pubkey.Visit: err = visitor(pubkey); if err != nil { return }
PubkeyAfterSelf(pc, e) ==
    IF e # "" THEN Return(e) ELSE Continue(Pc("sigs", 1, "", 0))

\* Pubkey.Visit: the body of a loop over pubkey.Signatures
PubkeyAfterSignature(pc, e) ==
    IF e # "" THEN Return(e) ELSE Continue([pc EXCEPT !.i = @ + 1])

\* Pubkey.Visit: a loop is exhausted, the next one starts (or Visit returns)
PubkeyNextLoop(pc) ==
    IF pc.loop = "sigs" THEN Continue(Pc("uids", 1, "self", 0))
    ELSE IF pc.loop = "uids" THEN Continue(Pc("uats", 1, "self", 0))
    ELSE IF pc.loop = "uats" THEN Continue(Pc("subkeys", 1, "self", 0))
    ELSE Return("")

\* A child's Visit that starts its signature loop one element late
KidAfterSelfSkipFirst(pc, e) ==
    IF e # "" THEN Return(e) ELSE Continue([pc EXCEPT !.inner = "sigs", !.j = 2])

\* UserId/UserAttribute/Subkey.Visit: err = visitor(self); if err != nil { return }
\* and the caller's: err = child.Visit(visitor); if err != nil { return }
KidAfterSelf(pc, e) ==
    IF e # "" THEN Return(e) ELSE Continue([pc EXCEPT !.inner = "sigs", !.j = 1])

\* A child's signature loop that does not stop on an error
KidAfterSignatureNoCheck(pc, e) == Continue([pc EXCEPT !.j = @ + 1])

\* UserId/UserAttribute/Subkey.Visit: the body of the loop over Signatures
KidAfterSignature(pc, e) ==
    IF e # "" THEN Return(e) ELSE Continue([pc EXCEPT !.j = @ + 1])

\* The child's Visit returns nil: the caller's loop moves on
KidReturn(pc) == Continue([pc EXCEPT !.i = @ + 1, !.inner = "self", !.j = 0])

KidList(loop) ==
    IF loop = "uids" THEN tree.UserIds
    ELSE IF loop = "uats" THEN tree.UserAttributes
    ELSE tree.Subkeys

VisitNew ==
    /\ tree \in Trees
    /\ vpc = Pc("self", 0, "", 0)
    /\ trace = <<>>
    /\ vfail = [at |-> 0, err |-> ""]
    /\ vresult = [done |-> FALSE, err |-> ""]

\* visitor(ent) returning e; vfail remembers the first error the visitor returned
VisitorCall(ent, e) ==
    /\ trace' = Append(trace, ent)
    /\ vfail' = IF e # "" /\ vfail.at = 0 THEN [at |-> Len(trace) + 1, err |-> e]
                ELSE vfail

Goto(out) ==
    /\ vpc' = out.pc
    /\ vresult' = [done |-> out.done, err |-> out.err]
    /\ UNCHANGED tree
    /\ UNCHANGED <<keyVars, sigVars, jpegVars, selfVars, mergeVars>>

PubkeyVisitSelf ==
    /\ vpc.loop = "self"
    /\ \E e \in VisitorOutcomes :
        /\ VisitorCall(tree.self, e)
        /\ Goto(PubkeyAfterSelf(vpc, e))

PubkeyVisitSignature ==
    /\ vpc.loop = "sigs"
    /\ vpc.i <= Len(tree.Signatures)
    /\ \E e \in VisitorOutcomes :
        /\ VisitorCall(tree.Signatures[vpc.i], e)
        /\ Goto(PubkeyAfterSignature(vpc, e))

PubkeySignaturesDone ==
    /\ vpc.loop = "sigs"
    /\ vpc.i > Len(tree.Signatures)
    /\ UNCHANGED <<trace, vfail>>
    /\ Goto(PubkeyNextLoop(vpc))

KidVisitSelf(loop) ==
    /\ vpc.inner = "self"
    /\ vpc.i <= Len(KidList(loop))
    /\ \E e \in VisitorOutcomes :
        /\ VisitorCall(KidList(loop)[vpc.i].self, e)
        /\ Goto(KidAfterSelf(vpc, e))

KidVisitSignature(loop) ==
    /\ vpc.inner = "sigs"
    /\ vpc.j <= Len(KidList(loop)[vpc.i].Signatures)
    /\ \E e \in VisitorOutcomes :
        /\ VisitorCall(KidList(loop)[vpc.i].Signatures[vpc.j], e)
        /\ Goto(KidAfterSignature(vpc, e))

KidVisitReturn(loop) ==
    /\ vpc.inner = "sigs"
    /\ vpc.j > Len(KidList(loop)[vpc.i].Signatures)
    /\ UNCHANGED <<trace, vfail>>
    /\ Goto(KidReturn(vpc))

KidsDone(loop) ==
    /\ vpc.inner = "self"
    /\ vpc.i > Len(KidList(loop))
    /\ UNCHANGED <<trace, vfail>>
    /\ Goto(PubkeyNextLoop(vpc))

UserIdVisitSelf ==
    /\ vpc.loop = "uids"
    /\ KidVisitSelf("uids")
UserIdVisitSignature ==
    /\ vpc.loop = "uids"
    /\ KidVisitSignature("uids")
UserIdVisitReturn ==
    /\ vpc.loop = "uids"
    /\ KidVisitReturn("uids")
PubkeyUserIdsDone ==
    /\ vpc.loop = "uids"
    /\ KidsDone("uids")
UserAttributeVisitSelf ==
    /\ vpc.loop = "uats"
    /\ KidVisitSelf("uats")
UserAttributeVisitSignature ==
    /\ vpc.loop = "uats"
    /\ KidVisitSignature("uats")
UserAttributeVisitReturn ==
    /\ vpc.loop = "uats"
    /\ KidVisitReturn("uats")
PubkeyUserAttributesDone ==
    /\ vpc.loop = "uats"
    /\ KidsDone("uats")
SubkeyVisitSelf ==
    /\ vpc.loop = "subkeys"
    /\ KidVisitSelf("subkeys")
SubkeyVisitSignature ==
    /\ vpc.loop = "subkeys"
    /\ KidVisitSignature("subkeys")
SubkeyVisitReturn ==
    /\ vpc.loop = "subkeys"
    /\ KidVisitReturn("subkeys")
PubkeySubkeysDone ==
    /\ vpc.loop = "subkeys"
    /\ KidsDone("subkeys")

VisitNext ==
    \/ PubkeyVisitSelf
    \/ PubkeyVisitSignature
    \/ PubkeySignaturesDone
    \/ UserIdVisitSelf
    \/ UserIdVisitSignature
    \/ UserIdVisitReturn
    \/ PubkeyUserIdsDone
    \/ UserAttributeVisitSelf
    \/ UserAttributeVisitSignature
    \/ UserAttributeVisitReturn
    \/ PubkeyUserAttributesDone
    \/ SubkeyVisitSelf
    \/ SubkeyVisitSignature
    \/ SubkeyVisitReturn
    \/ PubkeySubkeysDone

VisitInit == VisitNew /\ KeyParked /\ SigParked /\ JpegParked /\ SelfParked /\ MergeParked

SpecVisit == VisitInit /\ [][VisitNext]_vars

RECURSIVE KidsPreorder(_)
KidsPreorder(kids) ==
    IF kids = <<>> THEN <<>>
    ELSE <<Head(kids).self>> \o Head(kids).Signatures \o KidsPreorder(Tail(kids))

\* The pre-order listing of a tree: the Pubkey, its Signatures, each UserId
\* with its Signatures, each UserAttribute with its, each Subkey with its
Preorder(t) ==
    <<t.self>> \o t.Signatures \o KidsPreorder(t.UserIds)
    \o KidsPreorder(t.UserAttributes) \o KidsPreorder(t.Subkeys)

NoRepeats(s) == \A a, b \in 1..Len(s) : s[a] = s[b] => a = b

\* C3: when the visitor never returns an error, Visit returns nil having
\* called the visitor exactly once on every entity of the tree, in pre-order:
\* Pubkey, its Signatures, each UserId then its Signatures, each
\* UserAttribute then its Signatures, each Subkey then its Signatures.
C3_VisitPreorder ==
    (vresult.done /\ vfail.at = 0)
    => /\ vresult.err = ""
       /\ trace = Preorder(tree)
       /\ NoRepeats(trace)

\* A complete walk of a tree with every kind of entity, whose Revsig and
\* SelfSignature references point at owned signatures, with two
\* UserAttributes, the second holding two signatures
C3_Witness ==
    /\ vresult.done
    /\ vfail.at = 0
    /\ tree.Revsig.kind = "pubkey.sig"
    /\ Len(tree.UserIds) > 0 /\ tree.UserIds[1].SelfSignature.kind = "uid.sig"
    /\ Len(tree.UserAttributes) = 2 /\ Len(tree.UserAttributes[2].Signatures) = 2
    /\ Len(tree.Subkeys) > 0
    /\ Len(trace) > 8
    /\ trace[Len(trace)].kind = "subkey"

\* C4: when the visitor returns an error on the k-th entity of the walk, Visit
\* has called the visitor on exactly the first k entities of the pre-order
\* and returns that error value.
C4_VisitFailFast ==
    (vresult.done /\ vfail.at > 0)
    => /\ vresult.err = vfail.err
       /\ Len(trace) = vfail.at
       /\ trace = SubSeq(Preorder(tree), 1, vfail.at)

\* The visitor failed on the first of the two signatures of the first of two
\* Subkeys, after a UserId and its two signatures were visited: the second
\* signature and the second Subkey stay unvisited
C4_Witness ==
    /\ vresult.done
    /\ vfail.at > 0
    /\ vresult.err = "E2"
    /\ trace[Len(trace)] = Ent("subkey.sig", 1, 1)
    /\ Len(tree.Subkeys) = 2
    /\ Len(tree.Subkeys[1].Signatures) = 2
    /\ Len(tree.UserIds) > 0 /\ Len(tree.UserIds[1].Signatures) = 2
    /\ Len(trace) + 2 <= Len(Preorder(tree))

(***************************************************************************)
(* UserAttribute.SetPacket, SetOpaquePacket and GetJpegData                *)
(***************************************************************************)
\* Image subpacket type
ImageSubType == 1

\* Byte offset of image data in image subpacket
ImageSubOffset == 16

\* The contents of a subpacket of n bytes
SubpacketContents(n, subType) == [k \in 1..n |-> (k * 13 + subType * 5) % 256]

ContentLengths == (ImageSubOffset - 1)..(ImageSubOffset + MaxTail)

OpaqueSubpacketValues ==
    {[SubType |-> t, Contents |-> SubpacketContents(n, t)] :
        t \in {ImageSubType, 2}, n \in ContentLengths}

\* What decoding a stored packet gives: the subpackets in packet order, or a
\* failure of packet.OpaqueSubpackets, or a failure of uat.GetPacket
Decoded(subpackets) == [decode |-> "ok", subpackets |-> subpackets]

Undecodable(error) == [decode |-> error, subpackets |-> <<>>]

SerializedPackets ==
    {Decoded(l) : l \in UNION {[1..n -> OpaqueSubpacketValues] : n \in 0..MaxSubpackets}}
    \cup {Undecodable("subpacket error")}

\* The values of uat.Packet: the bytes of a serialized packet, or bytes loaded
\* from the packet column that no packet reader accepts
UserAttributes == SerializedPackets \cup {Undecodable("packet error")}

\* The arguments of the setters: an opaque packet whose Serialize succeeds
\* and writes the bytes that decode to stored, an opaque packet whose
\* Serialize fails, and a packet of another type
OpaquePackets ==
    {[type |-> "OpaquePacket", serialize |-> "", stored |-> u] : u \in SerializedPackets}
    \cup {[type |-> "OpaquePacket", serialize |-> "serialize error", stored |-> Decoded(<<>>)]}

PacketValues ==
    OpaquePackets \cup {[type |-> "PublicKey", serialize |-> "", stored |-> Decoded(<<>>)]}

\* UserAttribute.SetOpaquePacket: the fields after the call and the error
\* returned (the function ends without a return statement after the
\* assignment; the error there is nil)
SetOpaquePacket(ent, op) ==
    IF op.serialize # ""
    THEN [uat |-> ent, err |-> op.serialize]
    ELSE [uat |-> op.stored, err |-> ""]

\* UserAttribute.SetPacket
SetPacket(ent, p) ==
    IF p.type # "OpaquePacket"
    THEN [uat |-> ent, err |-> "ErrInvalidPacketType"]
    ELSE SetOpaquePacket(ent, p)

\* Go slice expression s[n:]
SliceFrom(s, n) == SubSeq(s, n + 1, Len(s))

\* A length test that lets a subpacket of exactly the header size through
JpegKeepOffByOne(subpacket) ==
    subpacket.SubType = ImageSubType /\ Len(subpacket.Contents) >= ImageSubOffset

\* The condition of the loop body of GetJpegData
JpegKeep(subpacket) ==
    subpacket.SubType = ImageSubType /\ Len(subpacket.Contents) > ImageSubOffset

\* The loop body of GetJpegData
JpegAppend(result, subpacket) ==
    IF JpegKeep(subpacket)
    THEN Append(result, SliceFrom(subpacket.Contents, ImageSubOffset))
    ELSE result

\* A UserAttribute loaded from storage, no call made on it yet
JpegNew ==
    /\ uat \in UserAttributes
    /\ jpc = [at |-> "idle", i |-> 0]
    /\ jresult = <<>>
    /\ seterr = "none"

\* A setter runs between calls of GetJpegData; the result of an earlier call
\* is dropped
SetterStep(out) ==
    /\ uat' = out.uat
    /\ seterr' = out.err
    /\ jpc' = [at |-> "idle", i |-> 0]
    /\ jresult' = <<>>
    /\ UNCHANGED <<keyVars, sigVars, visitVars, selfVars, mergeVars>>

UserAttributeSetPacketCall ==
    /\ jpc.at \in {"idle", "done"}
    /\ \E p \in PacketValues : SetterStep(SetPacket(uat, p))

UserAttributeSetOpaquePacketCall ==
    /\ jpc.at \in {"idle", "done"}
    /\ \E op \in OpaquePackets : SetterStep(SetOpaquePacket(uat, op))

JpegStep(at, i, result) ==
    /\ jpc' = [at |-> at, i |-> i]
    /\ jresult' = result
    /\ UNCHANGED <<uat, seterr>>
    /\ UNCHANGED <<keyVars, sigVars, visitVars, selfVars, mergeVars>>

\* Entry of GetJpegData with result nil, then
\* op, err := uat.GetPacket(); if err != nil { return }
JpegGetPacket ==
    /\ jpc.at \in {"idle", "done"}
    /\ IF uat.decode = "packet error" THEN JpegStep("done", 0, <<>>)
       ELSE JpegStep("OpaqueSubpackets", 0, <<>>)

\* subpackets, err := packet.OpaqueSubpackets(op.Contents); if err != nil { return }
JpegOpaqueSubpackets ==
    /\ jpc.at = "OpaqueSubpackets"
    /\ IF uat.decode = "subpacket error" THEN JpegStep("done", 0, jresult)
       ELSE JpegStep("loop", 1, jresult)

JpegLoopBody ==
    /\ jpc.at = "loop"
    /\ jpc.i <= Len(uat.subpackets)
    /\ JpegStep("loop", jpc.i + 1, JpegAppend(jresult, uat.subpackets[jpc.i]))

JpegReturn ==
    /\ jpc.at = "loop"
    /\ jpc.i > Len(uat.subpackets)
    /\ JpegStep("done", 0, jresult)

JpegNext ==
    \/ UserAttributeSetPacketCall
    \/ UserAttributeSetOpaquePacketCall
    \/ JpegGetPacket
    \/ JpegOpaqueSubpackets
    \/ JpegLoopBody
    \/ JpegReturn

JpegInit == JpegNew /\ KeyParked /\ SigParked /\ VisitParked /\ SelfParked /\ MergeParked

SpecJpeg == JpegInit /\ [][JpegNext]_vars

IsImage(sp) == sp.SubType = 1 /\ Len(sp.Contents) > 16

\* C9: GetJpegData returns, in subpacket order, one buffer for each subpacket
\* of type 1 with more than 16 bytes of content, holding the content from
\* offset 16 on; other subpackets contribute nothing; a decode failure gives
\* an empty result.
C9_ImageExtraction ==
    jpc.at = "done"
    => IF uat.decode # "ok" THEN jresult = <<>>
       ELSE LET images == SelectSeq(uat.subpackets, IsImage) IN
            /\ Len(jresult) = Len(images)
            /\ \A k \in 1..Len(images) :
                 /\ Len(jresult[k]) = Len(images[k].Contents) - 16
                 /\ \A b \in 1..Len(jresult[k]) : jresult[k][b] = images[k].Contents[16 + b]

\* After a setter stored a new packet, GetJpegData skipped its image
\* subpacket of exactly 16 bytes and kept its longer one
C9_Witness ==
    /\ seterr = ""
    /\ jpc.at = "done"
    /\ uat.decode = "ok"
    /\ Len(uat.subpackets) = 2
    /\ uat.subpackets[1].SubType = 1 /\ Len(uat.subpackets[1].Contents) = 16
    /\ uat.subpackets[2].SubType = 1 /\ Len(uat.subpackets[2].Contents) = 18
    /\ Len(jresult) = 1
    /\ Len(jresult[1]) = 2

(***************************************************************************)
(* Appending signatures and resolving the self-signature                   *)
(***************************************************************************)
\* packet.SigTypePositiveCert
SigTypePositiveCert == 19

\* (pubkey *Pubkey) AddSignature
PubkeyAddSignature(ent, s) == [ent EXCEPT !.Signatures = Append(@, s)]

\* (uid *UserId) AddSignature
UserIdAddSignature(ent, s) == [ent EXCEPT !.Signatures = Append(@, s)]

\* (uat *UserAttribute) AddSignature
UserAttributeAddSignature(ent, s) == [ent EXCEPT !.Signatures = Append(@, s)]

\* (subkey *Subkey) AddSignature
SubkeyAddSignature(ent, s) == [ent EXCEPT !.Signatures = Append(@, s)]

RECURSIVE UserIdScan(_, _)
\* The loop of UserId.SelfSignature from index i on; 0 stands for nil
UserIdScan(sigs, i) ==
    IF i > Len(sigs) THEN 0
    ELSE IF sigs[i].SigType = SigTypePositiveCert THEN i
    ELSE UserIdScan(sigs, i + 1)

RECURSIVE UserIdScanLast(_, _)
UserIdScanLast(sigs, i) ==
    IF i < 1 THEN 0
    ELSE IF sigs[i].SigType = SigTypePositiveCert THEN i
    ELSE UserIdScanLast(sigs, i - 1)

\* A resolver that returns the most recently appended match
UserIdSelfSignatureLast(ent) == UserIdScanLast(ent.Signatures, Len(ent.Signatures))

\* (uid *UserId) SelfSignature: the index of the signature returned
UserIdSelfSignature(ent) == UserIdScan(ent.Signatures, 1)

RECURSIVE PubkeyScan(_, _)
\* The loop of Pubkey.SelfSignature from index i on; 0 stands for nil
PubkeyScan(sigs, i) ==
    IF i > Len(sigs) THEN 0
    ELSE IF sigs[i].SigType = SigTypePositiveCert THEN i
    ELSE IF sigs[i].SigType = 25 THEN i
    ELSE PubkeyScan(sigs, i + 1)

\* (pk *Pubkey) SelfSignature: the index of the signature returned
PubkeySelfSignature(ent) == PubkeyScan(ent.Signatures, 1)

\* Signature types: generic certification, positive certification, subkey
\* binding, primary key binding (0x19)
SelfSigTypes == {16, 19, 24, 25}

SelfSigs == [SigType : SelfSigTypes]

NoSig == [SigType |-> 0]

SelfNew ==
    /\ lists = [pubkey |-> [Signatures |-> <<>>], uid |-> [Signatures |-> <<>>]]
    /\ selfOp = [op |-> "new", target |-> "", added |-> NoSig, result |-> 0,
                 before |-> <<>>]

SelfStep(op, target, added, result, after) ==
    /\ selfOp' = [op |-> op, target |-> target, added |-> added, result |-> result,
                  before |-> lists[target].Signatures]
    /\ lists' = [lists EXCEPT ![target] = after]
    /\ UNCHANGED <<keyVars, sigVars, visitVars, jpegVars, mergeVars>>

PubkeyAddSignatureCall ==
    /\ Len(lists.pubkey.Signatures) < MaxListLen
    /\ \E s \in SelfSigs :
        SelfStep("AddSignature", "pubkey", s, 0, PubkeyAddSignature(lists.pubkey, s))

UserIdAddSignatureCall ==
    /\ Len(lists.uid.Signatures) < MaxListLen
    /\ \E s \in SelfSigs :
        SelfStep("AddSignature", "uid", s, 0, UserIdAddSignature(lists.uid, s))

PubkeySelfSignatureCall ==
    \E r \in {PubkeySelfSignature(lists.pubkey)} :
        SelfStep("SelfSignature", "pubkey", NoSig, r, lists.pubkey)

UserIdSelfSignatureCall ==
    \E r \in {UserIdSelfSignature(lists.uid)} :
        SelfStep("SelfSignature", "uid", NoSig, r, lists.uid)

SelfNext ==
    \/ PubkeyAddSignatureCall
    \/ UserIdAddSignatureCall
    \/ PubkeySelfSignatureCall
    \/ UserIdSelfSignatureCall

SelfInit == SelfNew /\ KeyParked /\ SigParked /\ VisitParked /\ JpegParked /\ MergeParked

SpecSelf == SelfInit /\ [][SelfNext]_vars

Accepted(target, s) ==
    IF target = "uid" THEN s.SigType = 19 ELSE s.SigType \in {19, 25}

\* C10: SelfSignature returns the signature at the smallest index whose type
\* is accepted (positive certification for a UserId; positive certification
\* or 0x19 for a Pubkey), returns nil exactly when the list holds no accepted
\* signature, and leaves the list as it was; the result is thus determined by
\* the list alone.
C10_SelfSignatureFirstMatch ==
    selfOp.op = "SelfSignature"
    => LET sigs == lists[selfOp.target].Signatures
           hits == {i \in 1..Len(sigs) : Accepted(selfOp.target, sigs[i])}
       IN /\ sigs = selfOp.before
          /\ (selfOp.result = 0) <=> (hits = {})
          /\ selfOp.result # 0 =>
               /\ selfOp.result \in hits
               /\ \A i \in hits : selfOp.result <= i

\* A UserId list with a non-matching 0x19 first and two positive
\* certifications after it resolved to the second element
C10_Witness ==
    /\ selfOp.op = "SelfSignature"
    /\ selfOp.target = "uid"
    /\ Len(lists.uid.Signatures) = 3
    /\ lists.uid.Signatures[1].SigType = 25
    /\ lists.uid.Signatures[2].SigType = 19
    /\ lists.uid.Signatures[3].SigType = 19
    /\ selfOp.result = 2
    /\ Len(lists.pubkey.Signatures) > 0

(***************************************************************************)
(* Merging an incoming Pubkey tree into the stored one.  Trees are built   *)
(* with the AddSignature methods; the merge itself follows the design of   *)
(* the merge engine: union by identity, then derived state recomputed.     *)
(***************************************************************************)
\* The time at which expiration is judged
Now == 10

\* Two positive certifications, one expired and one not, and a key revocation
MergeSigs ==
    {[ScopedDigest |-> "d1", SigType |-> 19, Expiration |-> 5],
     [ScopedDigest |-> "d2", SigType |-> 19, Expiration |-> 20],
     [ScopedDigest |-> "d3", SigType |-> 32, Expiration |-> 0]}

UserIdDigests == {"u1", "u2"}
UserAttributeDigests == {"a1"}
SubkeyFingerprints == {"k1"}
PubkeyFingerprints == {"F1", "F2"}

NewPubkey(fp) ==
    [RFingerprint |-> fp, Signatures |-> <<>>, UserIds |-> <<>>,
     UserAttributes |-> <<>>, Subkeys |-> <<>>]

NewUserId(d) == [ScopedDigest |-> d, Signatures |-> <<>>]
NewUserAttribute(d) == [ScopedDigest |-> d, Signatures |-> <<>>]
NewSubkey(fp) == [RFingerprint |-> fp, Signatures |-> <<>>]

KidsSize(kids) ==
    Len(kids) + Cardinality({<<i, j>> \in (1..Len(kids)) \X (1..MaxStoredSize + 1) :
                                j <= Len(kids[i].Signatures)})

\* The number of signatures and components a tree holds
TreeSize(t) ==
    Len(t.Signatures) + KidsSize(t.UserIds) + KidsSize(t.UserAttributes)
    + KidsSize(t.Subkeys)

AddSignatureTo(kind, ent, s) ==
    IF kind = "pubkey" THEN PubkeyAddSignature(ent, s)
    ELSE IF kind = "uid" THEN UserIdAddSignature(ent, s)
    ELSE IF kind = "uat" THEN UserAttributeAddSignature(ent, s)
    ELSE SubkeyAddSignature(ent, s)

HasDigest(sigs, d) == \E i \in 1..Len(sigs) : sigs[i].ScopedDigest = d

RECURSIVE MergeSignaturesAppendAll(_, _, _)
\* A signature merge that appends every incoming signature
MergeSignaturesAppendAll(kind, ent, sigs) ==
    IF sigs = <<>> THEN ent
    ELSE MergeSignaturesAppendAll(kind, AddSignatureTo(kind, ent, Head(sigs)), Tail(sigs))

RECURSIVE MergeSignatures(_, _, _)
\* Union by signature identity: a signature whose digest the entity already
\* holds is kept once, any other is added
MergeSignatures(kind, ent, sigs) ==
    IF sigs = <<>> THEN ent
    ELSE MergeSignatures(kind,
             IF HasDigest(ent.Signatures, Head(sigs).ScopedDigest) THEN ent
             ELSE AddSignatureTo(kind, ent, Head(sigs)),
             Tail(sigs))

\* The identity of a UserId or UserAttribute is its digest, of a Subkey its
\* reversed fingerprint
KidId(kind, kid) == IF kind = "subkey" THEN kid.RFingerprint ELSE kid.ScopedDigest

KidIndex(kind, kids, id) ==
    IF \E i \in 1..Len(kids) : KidId(kind, kids[i]) = id
    THEN CHOOSE i \in 1..Len(kids) :
            /\ KidId(kind, kids[i]) = id
            /\ \A j \in 1..(i - 1) : KidId(kind, kids[j]) # id
    ELSE 0

RECURSIVE MergeKidsMatchedOnly(_, _, _)
\* A component merge that drops an incoming component the stored tree lacks
MergeKidsMatchedOnly(kind, existing, more) ==
    IF more = <<>> THEN existing
    ELSE LET k == Head(more)
             i == KidIndex(kind, existing, KidId(kind, k))
         IN MergeKidsMatchedOnly(kind,
                IF i = 0 THEN existing
                ELSE [existing EXCEPT ![i] = MergeSignatures(kind, @, k.Signatures)],
                Tail(more))

RECURSIVE MergeKids(_, _, _)
\* Components matched by identity: signatures merged when on both sides,
\* the component carried over with its signature list otherwise
MergeKids(kind, existing, more) ==
    IF more = <<>> THEN existing
    ELSE LET k == Head(more)
             i == KidIndex(kind, existing, KidId(kind, k))
         IN MergeKids(kind,
                IF i = 0 THEN Append(existing, k)
                ELSE [existing EXCEPT ![i] = MergeSignatures(kind, @, k.Signatures)],
                Tail(more))

\* merge(existing, incoming)
Merge(a, b) ==
    IF a.RFingerprint # b.RFingerprint
    THEN [tree |-> a, err |-> "fingerprint mismatch"]
    ELSE [tree |-> [MergeSignatures("pubkey", a, b.Signatures) EXCEPT
                       !.UserIds = MergeKids("uid", a.UserIds, b.UserIds),
                       !.UserAttributes = MergeKids("uat", a.UserAttributes, b.UserAttributes),
                       !.Subkeys = MergeKids("subkey", a.Subkeys, b.Subkeys)],
          err |-> ""]

Expired(s) == s.Expiration # 0 /\ s.Expiration < Now

\* State of a Pubkey: revoked by a key revocation (0x20), else expired when
\* the resolved self-signature has expired, else valid
PubkeyState(pk) ==
    IF \E i \in 1..Len(pk.Signatures) : pk.Signatures[i].SigType = 32 THEN "revoked"
    ELSE LET i == PubkeySelfSignature(pk) IN
         IF i # 0 /\ Expired(pk.Signatures[i]) THEN "expired" ELSE "valid"

\* State of a UserId: revoked by a certification revocation (0x30), else
\* expired when the resolved self-signature has expired, else valid
UserIdState(uid) ==
    IF \E i \in 1..Len(uid.Signatures) : uid.Signatures[i].SigType = 48 THEN "revoked"
    ELSE LET i == UserIdSelfSignature(uid) IN
         IF i # 0 /\ Expired(uid.Signatures[i]) THEN "expired" ELSE "valid"

\* The derived state of a tree: of the Pubkey and of each UserId by identity
DerivedState(t) ==
    [pubkey |-> PubkeyState(t),
     uids |-> {<<t.UserIds[i].ScopedDigest, UserIdState(t.UserIds[i])>> :
                  i \in 1..Len(t.UserIds)}]

MergeNew ==
    /\ stored = NewPubkey("F1")
    /\ incoming = NewPubkey("F1")
    /\ mergeOp = [op |-> "new", before |-> NewPubkey("F1"), n |-> 0, err |-> ""]

\* A call that builds the incoming tree
Build(t) ==
    /\ incoming' = t
    /\ mergeOp' = [op |-> "build", before |-> stored, n |-> 0, err |-> ""]
    /\ UNCHANGED stored
    /\ UNCHANGED <<keyVars, sigVars, visitVars, jpegVars, selfVars>>

\* New key material arrives
IncomingNew ==
    \E fp \in PubkeyFingerprints :
        /\ incoming' = NewPubkey(fp)
        /\ mergeOp' = [op |-> "build", before |-> stored, n |-> 0, err |-> ""]
        /\ UNCHANGED stored
        /\ UNCHANGED <<keyVars, sigVars, visitVars, jpegVars, selfVars>>

IncomingAddSignature ==
    \E s \in MergeSigs :
        /\ TreeSize(incoming) < MaxIncomingSize
        /\ Build(PubkeyAddSignature(incoming, s))

IncomingAddUserId ==
    \E d \in UserIdDigests :
        /\ TreeSize(incoming) < MaxIncomingSize
        /\ KidIndex("uid", incoming.UserIds, d) = 0
        /\ Build([incoming EXCEPT !.UserIds = Append(@, NewUserId(d))])

IncomingAddUserAttribute ==
    \E d \in UserAttributeDigests :
        /\ TreeSize(incoming) < MaxIncomingSize
        /\ KidIndex("uat", incoming.UserAttributes, d) = 0
        /\ Build([incoming EXCEPT !.UserAttributes = Append(@, NewUserAttribute(d))])

IncomingAddSubkey ==
    \E fp \in SubkeyFingerprints :
        /\ TreeSize(incoming) < MaxIncomingSize
        /\ KidIndex("subkey", incoming.Subkeys, fp) = 0
        /\ Build([incoming EXCEPT !.Subkeys = Append(@, NewSubkey(fp))])

IncomingUserIdAddSignature ==
    \E i \in 1..Len(incoming.UserIds), s \in MergeSigs :
        /\ TreeSize(incoming) < MaxIncomingSize
        /\ Build([incoming EXCEPT !.UserIds[i] = UserIdAddSignature(@, s)])

IncomingUserAttributeAddSignature ==
    \E i \in 1..Len(incoming.UserAttributes), s \in MergeSigs :
        /\ TreeSize(incoming) < MaxIncomingSize
        /\ Build([incoming EXCEPT !.UserAttributes[i] = UserAttributeAddSignature(@, s)])

IncomingSubkeyAddSignature ==
    \E i \in 1..Len(incoming.Subkeys), s \in MergeSigs :
        /\ TreeSize(incoming) < MaxIncomingSize
        /\ Build([incoming EXCEPT !.Subkeys[i] = SubkeyAddSignature(@, s)])

\* merge(stored, incoming); n counts the merges of this incoming tree in a row
MergeCall ==
    \E r \in {Merge(stored, incoming)} :
        /\ TreeSize(r.tree) <= MaxStoredSize
        /\ stored' = r.tree
        /\ mergeOp' = [op |-> "Merge", before |-> stored,
                       n |-> IF mergeOp.n < 2 THEN mergeOp.n + 1 ELSE 2, err |-> r.err]
        /\ UNCHANGED incoming
        /\ UNCHANGED <<keyVars, sigVars, visitVars, jpegVars, selfVars>>

MergeNext ==
    \/ IncomingNew
    \/ IncomingAddSignature
    \/ IncomingAddUserId
    \/ IncomingAddUserAttribute
    \/ IncomingAddSubkey
    \/ IncomingUserIdAddSignature
    \/ IncomingUserAttributeAddSignature
    \/ IncomingSubkeyAddSignature
    \/ MergeCall

MergeInit == MergeNew /\ KeyParked /\ SigParked /\ VisitParked /\ JpegParked /\ SelfParked

SpecMerge == MergeInit /\ [][MergeNext]_vars

Digests(sigs) == {sigs[i].ScopedDigest : i \in 1..Len(sigs)}

KidsContained(kind, big, small) ==
    \A i \in 1..Len(small) :
        \E j \in 1..Len(big) :
            /\ KidId(kind, big[j]) = KidId(kind, small[i])
            /\ Digests(small[i].Signatures) \subseteq Digests(big[j].Signatures)

\* Every signature digest and component identity of small is in big, in the
\* corresponding list
Contains(big, small) ==
    /\ Digests(small.Signatures) \subseteq Digests(big.Signatures)
    /\ KidsContained("uid", big.UserIds, small.UserIds)
    /\ KidsContained("uat", big.UserAttributes, small.UserAttributes)
    /\ KidsContained("subkey", big.Subkeys, small.Subkeys)

\* C5: after a merge the stored tree holds every signature digest and every
\* UserId/UserAttribute/Subkey identity the stored tree held before, and, when
\* the fingerprints are equal, every one the incoming tree holds, each in the
\* corresponding list; so nothing accepted is dropped by any run of merges.
C5_MergeMonotone ==
    mergeOp.op = "Merge"
    => /\ Contains(stored, mergeOp.before)
       /\ mergeOp.err = "" => Contains(stored, incoming)

\* A merge in which either side brought a signature the other lacked, into a
\* tree that holds a UserId
C5_Witness ==
    /\ mergeOp.op = "Merge"
    /\ mergeOp.err = ""
    /\ mergeOp.before.Signatures # <<>>
    /\ incoming.Signatures # <<>>
    /\ Len(stored.Signatures) = 2
    /\ ~Contains(mergeOp.before, incoming)
    /\ ~Contains(incoming, mergeOp.before)
    /\ stored.UserIds # <<>>

NoDupSigs(sigs) ==
    \A a, b \in 1..Len(sigs) : sigs[a].ScopedDigest = sigs[b].ScopedDigest => a = b

NoDupKids(kind, kids) ==
    /\ \A a, b \in 1..Len(kids) : KidId(kind, kids[a]) = KidId(kind, kids[b]) => a = b
    /\ \A a \in 1..Len(kids) : NoDupSigs(kids[a].Signatures)

NoDupTree(t) ==
    /\ NoDupSigs(t.Signatures)
    /\ NoDupKids("uid", t.UserIds)
    /\ NoDupKids("uat", t.UserAttributes)
    /\ NoDupKids("subkey", t.Subkeys)

\* C6: merging a duplicate-free tree with itself gives that tree; merging the
\* same incoming tree a second time changes nothing; and the merge of two
\* duplicate-free trees is duplicate-free, a signature on both sides being
\* kept once.
C6_MergeIdempotent ==
    (mergeOp.op = "Merge" /\ mergeOp.err = "")
    => /\ (mergeOp.before = incoming /\ NoDupTree(incoming)) => stored = incoming
       /\ mergeOp.n >= 2 => stored = mergeOp.before
       /\ (NoDupTree(mergeOp.before) /\ NoDupTree(incoming)) => NoDupTree(stored)

\* The same incoming tree, sharing a signature with the stored one, was
\* merged twice in a row into a tree that held more than it
C6_Witness ==
    /\ mergeOp.op = "Merge"
    /\ mergeOp.err = ""
    /\ mergeOp.n = 2
    /\ incoming.Signatures # <<>>
    /\ NoDupTree(stored)
    /\ stored # incoming
    /\ Len(stored.Signatures) = 2

\* C7: the derived state after merging the incoming tree into the stored one
\* is the derived state of merging the stored one into the incoming one.
C7_StateIndependentOfSide ==
    (mergeOp.op = "Merge" /\ mergeOp.err = "")
    => DerivedState(stored) = DerivedState(Merge(incoming, mergeOp.before).tree)
=============================================================================
